---- MODULE Spec2Model ----
(***************************************************************************)
(* Audio-to-text pipeline of voice-execution-flow:                         *)
(*   app/audio_processor.py    AudioProcessor   (Transcribe)               *)
(*   app/language_detector.py  LanguageDetector (DetectLanguage)           *)
(* Both work on one shared scratch directory.  Every call of an external   *)
(* collaborator (disk write, pydub decode/encode, the speech backend, the  *)
(* langdetect classifier, unlink) is one step whose outcome is chosen      *)
(* nondeterministically among the outcomes the collaborator can produce.   *)
(*                                                                         *)
(* Strings are sequences of tokens: a transcript is a sequence of          *)
(* characters, a sentinel sentence is a one-token sequence, an exception   *)
(* message is a sequence of message tokens.                                *)
(***************************************************************************)
EXTENDS Integers, Sequences, FiniteSets, TLC

\* ---------------------------------------------------------------- bounds
NumReqs == 2
NumStems == 2
MaxLen == 3
MaxMsgLen == 1
MaxDirAtStart == 1
MaxTicks == 2
MaxAgeHours == 1
MaxRecords == 2

Reqs == 1..NumReqs
Stems == 1..NumStems

\* Python's None, for a path and for an exception
NoPath == [stem |-> 0, suffix |-> ""]

\* ------------------------------------------------------- strings as data
Chars == {" ", "a"}

SeqsUpTo(S, n) == UNION {[1..k -> S] : k \in 0..n}

\* what recognize_google can return as text
Transcripts == SeqsUpTo(Chars, MaxLen)

RECURSIVE LStrip(_)
LStrip(t) == IF t # <<>> /\ Head(t) = " " THEN LStrip(Tail(t)) ELSE t

RECURSIVE RStrip(_)
RStrip(t) ==
    IF t # <<>> /\ t[Len(t)] = " " THEN RStrip(SubSeq(t, 1, Len(t) - 1)) ELSE t

\* str.strip()
Strip(t) == RStrip(LStrip(t))

\* ------------------------------------------------------------ file names
\* an uploaded filename is a sequence of components: the base name followed
\* by its dot-suffixes
Filenames ==
    {<<"voice", ".wav">>, <<"voice", ".WAV">>, <<"voice", ".mp3">>, <<"voice">>}

\* Path(filename).suffix: the last dot-component, '' when there is none
PathSuffix(fn) == IF Len(fn) >= 2 THEN fn[Len(fn)] ELSE ""

\* suffix = Path(filename).suffix or '.tmp'
TempSuffix(fn) == IF PathSuffix(fn) = "" THEN ".tmp" ELSE PathSuffix(fn)

\* variant: the suffix is compared as it is
Lower_Identity(s) == s

\* str.lower() on a suffix
Lower(s) == CASE s = ".WAV" -> ".wav" [] OTHER -> s

Suffixes == {".wav", ".WAV", ".mp3", ".tmp", ".flac"}
Paths == [stem : Stems, suffix : Suffixes]

\* variant: the suffix is not replaced
WithSuffix_Same(p, sfx) == p

\* Path.with_suffix
WithSuffix(p, sfx) == [p EXCEPT !.suffix = sfx]

\* suffix.lower() == '.wav'
IsWav(p) == Lower(p.suffix) = ".wav"

\* ------------------------------------------------------------ exceptions
\* the text by which speech_recognition reports the missing flac utility
FlacMarker == "FLAC conversion utility not available"

MsgTokens == {FlacMarker, "detail"}
Msgs == SeqsUpTo(MsgTokens, MaxMsgLen)

\* an exception is its class and its str()
Exc(t, m) == [type |-> t, msg |-> m]

\* what the speech backend (sr.AudioFile, record, recognize_google) raises
BackendExcTypes ==
    {"UnknownValueError", "RequestError", "FileNotFoundError", "OSError"}
BackendExcs == [type : BackendExcTypes, msg : Msgs]

\* what the langdetect classifier raises
ClassifierExcs == [type : {"LangDetectException", "ValueError"}, msg : {<<>>}]

\* what a failed disk write, decode or encode raises
IOExc == Exc("OSError", <<>>)

\* isinstance(e, cls) for an `except cls` clause
IsInstance(e, cls) ==
    \/ cls = "Exception"
    \/ e.type = cls
    \/ cls = "OSError" /\ e.type = "FileNotFoundError"

\* `needle in error_msg`, at token granularity
Contains(msg, needle) == \E i \in 1..Len(msg) : msg[i] = needle

\* -------------------------------------------------------------- sentinels
\* a sentence is a sequence of tokens: its parts and the space between them
SentinelNoMatch ==
    <<"Could not understand audio clearly.", " ",
      "Please try speaking more clearly or checking your microphone.">>
SentinelService ==
    <<"Speech recognition service error.", " ",
      "Please check your internet connection.">>
SentinelFile ==
    <<"Audio file processing error.", " ", "Please try recording again.">>
SentinelFormat ==
    <<"Audio conversion error.", " ",
      "Unable to process audio format. Please try recording in WAV format.">>
\* f"Transcription error: {error_msg}"
SentinelError(msg) == <<"Transcription error:", " ">> \o msg

Return(t) == [do |-> "return", text |-> t]
Fallback == [do |-> "fallback", text |-> <<>>]
Raise == [do |-> "raise", text |-> <<>>]

\* variant: the generic clause re-raises what is not the codec condition
AP_TranscribeHandler_Reraise(e) ==
    IF IsInstance(e, "UnknownValueError") THEN Return(SentinelNoMatch)
    ELSE IF IsInstance(e, "RequestError") THEN Return(SentinelService)
    ELSE IF IsInstance(e, "FileNotFoundError") THEN Return(SentinelFile)
    ELSE IF Contains(e.msg, FlacMarker) THEN Fallback
    ELSE Raise

\* variant: no clause for FileNotFoundError
AP_TranscribeHandler_NoFileClause(e) ==
    IF IsInstance(e, "UnknownValueError") THEN Return(SentinelNoMatch)
    ELSE IF IsInstance(e, "RequestError") THEN Return(SentinelService)
    ELSE IF Contains(e.msg, FlacMarker) THEN Fallback
    ELSE Return(SentinelError(e.msg))

\* variant: the generic clause falls back on every failure
AP_TranscribeHandler_AlwaysFallback(e) ==
    IF IsInstance(e, "UnknownValueError") THEN Return(SentinelNoMatch)
    ELSE IF IsInstance(e, "RequestError") THEN Return(SentinelService)
    ELSE IF IsInstance(e, "FileNotFoundError") THEN Return(SentinelFile)
    ELSE Fallback

\* the except clauses of AudioProcessor._transcribe_audio, in clause order
AP_TranscribeHandler(e) ==
    IF IsInstance(e, "UnknownValueError") THEN Return(SentinelNoMatch)
    ELSE IF IsInstance(e, "RequestError") THEN Return(SentinelService)
    ELSE IF IsInstance(e, "FileNotFoundError") THEN Return(SentinelFile)
    ELSE IF Contains(e.msg, FlacMarker) THEN Fallback
    ELSE Return(SentinelError(e.msg))

\* variant: the fallback lets its failure escape
AP_FallbackHandler_Reraise(e) == Raise

\* variant: the fallback answers the sentinel of the retry's own failure
AP_FallbackHandler_PerCategory(e) ==
    IF IsInstance(e, "UnknownValueError") THEN Return(SentinelNoMatch)
    ELSE IF IsInstance(e, "RequestError") THEN Return(SentinelService)
    ELSE Return(SentinelFormat)

\* the except clause of AudioProcessor._try_flac_fallback
AP_FallbackHandler(e) == Return(SentinelFormat)

\* variant: the clauses answer the sentinel sentences of AudioProcessor
LD_TranscribeHandler_Sentinel(e) ==
    IF IsInstance(e, "UnknownValueError") THEN Return(SentinelNoMatch)
    ELSE IF IsInstance(e, "RequestError") THEN Return(SentinelService)
    ELSE Return(SentinelError(e.msg))

\* the except clauses of LanguageDetector._transcribe_audio
LD_TranscribeHandler(e) ==
    IF IsInstance(e, "UnknownValueError") THEN Return(<<>>)
    ELSE IF IsInstance(e, "RequestError") THEN Return(<<>>)
    ELSE Return(<<>>)

\* ------------------------------------------------------ language mapping
DefaultLanguage == "English"

language_mapping ==
    [c \in {"en", "es", "fr", "de", "it", "pt", "ru", "zh", "ja", "ko",
            "ar", "hi", "nl", "sv", "no", "da", "fi", "pl", "tr", "he"} |->
        CASE c = "en" -> "English"    [] c = "es" -> "Spanish"
          [] c = "fr" -> "French"     [] c = "de" -> "German"
          [] c = "it" -> "Italian"    [] c = "pt" -> "Portuguese"
          [] c = "ru" -> "Russian"    [] c = "zh" -> "Chinese"
          [] c = "ja" -> "Japanese"   [] c = "ko" -> "Korean"
          [] c = "ar" -> "Arabic"     [] c = "hi" -> "Hindi"
          [] c = "nl" -> "Dutch"      [] c = "sv" -> "Swedish"
          [] c = "no" -> "Norwegian"  [] c = "da" -> "Danish"
          [] c = "fi" -> "Finnish"    [] c = "pl" -> "Polish"
          [] c = "tr" -> "Turkish"    [] c = "he" -> "Hebrew"]

\* variant: get(detected_code, detected_code)
LanguageName_NoDefault(code) ==
    IF code \in DOMAIN language_mapping THEN language_mapping[code]
    ELSE code

\* self.language_mapping.get(detected_code, "English")
LanguageName(code) ==
    IF code \in DOMAIN language_mapping THEN language_mapping[code]
    ELSE DefaultLanguage

\* codes langdetect can answer: the table's keys and codes outside it
ClassifierCodes == DOMAIN language_mapping \cup {"zh-cn", "xx"}

\* `not transcription or transcription.strip() == ""`
NoTranscription(t) == t = <<>> \/ Strip(t) = <<>>

\* variant: len(cleaned_text) < 2
TooShort_OffByOne(t) == t = <<>> \/ Strip(t) = <<>> \/ Len(Strip(t)) < 2

\* the guards of _detect_language_from_text before the classifier call
TooShort(t) == t = <<>> \/ Strip(t) = <<>> \/ Len(Strip(t)) < 3

\* variant: the clauses answer "Unknown"
LD_ClassifierHandler_Unknown(e) ==
    IF IsInstance(e, "LangDetectException") THEN "Unknown"
    ELSE "Unknown"

\* the except clauses of _detect_language_from_text
LD_ClassifierHandler(e) ==
    IF IsInstance(e, "LangDetectException") THEN DefaultLanguage
    ELSE DefaultLanguage

\* ------------------------------------------------------------------ state
VARIABLES
    dir,                  \* the files present in settings.TEMP_AUDIO_DIR
    pc,                   \* where each call is
    kind,                 \* "transcribe" (process_audio_file) or "detect"
    filename,             \* the call's filename argument
    temp_file_path,       \* local of the entry point
    processed_file_path,  \* local of the entry point
    flac_path,            \* local of _try_flac_fallback
    transcription,        \* local of the entry point
    exc,                  \* the exception in flight, NoExc when none
    result,               \* the value the call returns
    hist,                 \* what the call has done so far (history)
    mtime,                \* st_mtime of each scratch file, in seconds
    now,                  \* time.time(), in seconds
    sweep,                \* the running cleanup_old_files call
    env,                  \* the deployment, and what the external
                          \* collaborators can answer
    api,                  \* the running endpoint handler of each slot
    db                    \* the documents of the voice actions collection

vars == <<dir, pc, kind, filename, temp_file_path, processed_file_path,
          flac_path, transcription, exc, result, hist, mtime, now, sweep,
          env, api, db>>

apiVars == <<api, db>>

NoExc == Exc("None", <<>>)
Ok == Exc("ok", <<>>)

NoResult == [text |-> <<>>, name |-> NoPath, language |-> ""]

NoHist ==
    [persist |-> "none",        \* none, ok, create_fail, write_fail
     conv |-> "none",           \* none, skipped, ok, decode_fail, export_fail, export_partial
     primary |-> NoExc,         \* outcome of the primary transcription
     primaryPath |-> NoPath,    \* the file handed to the primary transcription
     primaries |-> 0,           \* primary transcription attempts
     fallbacks |-> 0,           \* entries of _try_flac_fallback
     retry |-> "none",          \* none, ok, decode_fail, export_fail, export_partial, or the class raised
     classifierCalls |-> 0,     \* calls of langdetect.detect
     code |-> "",               \* the code the classifier answered
     classifierExc |-> "",      \* the class the classifier raised
     created |-> {},            \* scratch files this call created
     unlinkFailed |-> FALSE]    \* some unlink of this call raised

\* the application as main.py runs it (one uvicorn process, one event
\* loop), with every filename, transcript, exception and code of the model
FullEnv ==
    [parallel |-> FALSE,      \* several worker processes share the directory
     outOfBand |-> FALSE,     \* cleanup_old_files is called from outside the loop
     unlinkOks |-> BOOLEAN,   \* whether unlink() can succeed, can fail
     kinds |-> {"transcribe", "detect"},
     filenames |-> Filenames,
     texts |-> Transcripts,
     excs |-> BackendExcs,
     codes |-> ClassifierCodes,
     cexcs |-> ClassifierExcs]

\* the same deployment with one case of each kind
SmallEnv ==
    [parallel |-> FALSE,
     outOfBand |-> FALSE,
     unlinkOks |-> BOOLEAN,
     kinds |-> {"transcribe", "detect"},
     filenames |-> {<<"voice", ".mp3">>, <<"voice", ".wav">>},
     texts |-> {<<"a", "a", "a">>},
     excs |-> {Exc("FileNotFoundError", <<>>), Exc("OSError", <<FlacMarker>>)},
     codes |-> {"es"},
     cexcs |-> {Exc("LangDetectException", <<>>)}]

\* several worker processes serve the calls; every unlink succeeds and the
\* backend, when it fails, fails with the codec error
ConcEnv ==
    [SmallEnv EXCEPT !.parallel = TRUE,
                     !.unlinkOks = {TRUE},
                     !.excs = {Exc("OSError", <<FlacMarker>>)}]

\* one worker's transcribe calls of an mp3 upload that the backend cannot
\* open, and a cleanup_old_files call made from outside the event loop
RaceEnv ==
    [parallel |-> FALSE,
     outOfBand |-> TRUE,
     unlinkOks |-> {TRUE},
     kinds |-> {"transcribe"},
     filenames |-> {<<"voice", ".mp3">>},
     texts |-> {<<"a", "a", "a">>},
     excs |-> {Exc("FileNotFoundError", <<>>)},
     codes |-> {"es"},
     cexcs |-> {Exc("LangDetectException", <<>>)}]

\* the application behind its endpoints: transcribe calls of the handler's
\* upload, with a backend that answers or finds no speech
ApiEnv ==
    [parallel |-> FALSE,
     outOfBand |-> FALSE,
     unlinkOks |-> {TRUE},
     kinds |-> {"transcribe"},
     filenames |-> {<<"voice", ".mp3">>},
     texts |-> {<<"a", "a", "a">>},
     excs |-> {Exc("UnknownValueError", <<>>)},
     codes |-> {"es"},
     cexcs |-> {Exc("LangDetectException", <<>>)}]

\* no cleanup_old_files call is running
NoSweep ==
    [pc |-> "idle",           \* idle, iter, stat, cleanup, done, raised
     current_time |-> 0,      \* local current_time
     max_age_seconds |-> 0,   \* local max_age_seconds
     todo |-> {},             \* entries iterdir() has not yet produced
     file_path |-> NoPath,    \* loop variable
     listed |-> {},           \* entries iterdir() listed (history)
     mtime0 |-> [p \in Paths |-> 0],  \* st_mtime at the listing (history)
     unlinkFailed |-> {},     \* paths whose unlink raised (history)
     disturbed |-> FALSE,     \* a call changed the directory meanwhile (history)
     inUseDeleted |-> FALSE,  \* it unlinked a file a running call uses (history)
     ownerFast |-> FALSE]     \* ... whose files were all younger than the threshold

\* ------------------------------------------------ the endpoint handlers
\* settings.MAX_AUDIO_FILE_SIZE
MAX_AUDIO_FILE_SIZE == 10485760

\* len(content) of an upload: empty, the largest accepted, one byte more
ContentSizes == {0, MAX_AUDIO_FILE_SIZE, MAX_AUDIO_FILE_SIZE + 1}

\* file.filename: none, or a name
UploadNames == {<<>>, <<"voice", ".mp3">>}

\* HTTPException(status_code=...), any other exception, no exception
HTTPException(status_code) == [type |-> "HTTPException", status |-> status_code]
OtherException == [type |-> "Exception", status |-> 0]
NoApiExc == [type |-> "None", status |-> 0]

\* the checks both handlers make before any work: the exception raised,
\* NoApiExc when the upload passes
ValidateFile(fn, size) ==
    IF fn = <<>> THEN HTTPException(400)
    ELSE IF size > MAX_AUDIO_FILE_SIZE THEN HTTPException(413)
    ELSE NoApiExc

\* upload_audio: except Exception as e: raise HTTPException(status_code=500);
\* HTTPException is an Exception
UploadHandler(e) == 500

\* voice_message_webhook: except HTTPException: raise;
\* except Exception: raise HTTPException(status_code=500)
WebhookHandler(e) == IF e.type = "HTTPException" THEN e.status ELSE 500

\* what the workflow webhook can send as its body: text that is no JSON,
\* {}, an object without "transcript", with "transcript": null, with a
\* transcript text
Bodies == {"unparsable", "empty", "no_transcript", "null_transcript",
           "transcript"}

\* what client.post can do: answer with a status and a body, time out
\* (httpx.TimeoutException), fail otherwise
WebhookOutcomes ==
    [kind : {"response"}, status : {200, 404, 500}, body : Bodies]
    \cup {[kind |-> "timeout", status |-> 0, body |-> ""],
          [kind |-> "error", status |-> 0, body |-> ""]}

\* N8NProcessingResult(success=..., result=..., error=...)
N8NProcessingResult(success, res, error) ==
    [success |-> success, result |-> res, error |-> error]

\* no workflow call has returned yet
NoN8N == N8NProcessingResult(FALSE, "unset", "unset")

\* variant: a 404 answer counts as success with the fallback result
ProcessVoiceMessage_Fallback404(o) ==
    IF o.kind = "response"
    THEN IF o.status = 200
         THEN IF o.body = "unparsable"
              THEN N8NProcessingResult(FALSE, "None", "error")
              ELSE N8NProcessingResult(TRUE, o.body, "None")
         ELSE IF o.status = 404
              THEN N8NProcessingResult(TRUE, "fallback", "None")
              ELSE N8NProcessingResult(FALSE, "None", "status")
    ELSE N8NProcessingResult(FALSE, "None", o.kind)

\* N8NService.process_voice_message, given what client.post does;
\* response.json() raises on a body that is no JSON, inside the try
ProcessVoiceMessage(o) ==
    IF o.kind = "response"
    THEN IF o.status = 200
         THEN IF o.body = "unparsable"
              THEN N8NProcessingResult(FALSE, "None", "error")
              ELSE N8NProcessingResult(TRUE, o.body, "None")
         ELSE N8NProcessingResult(FALSE, "None", "status")
    ELSE N8NProcessingResult(FALSE, "None", o.kind)

\* N8NService.process_voice_audio, given what client.post does
ProcessVoiceAudio(o) ==
    IF o.kind = "response"
    THEN IF o.status = 200
         THEN IF o.body = "unparsable"
              THEN N8NProcessingResult(FALSE, "None", "error")
              ELSE N8NProcessingResult(TRUE, o.body, "None")
         ELSE IF o.status = 404
              THEN N8NProcessingResult(TRUE, "fallback", "None")
              ELSE N8NProcessingResult(FALSE, "None", "status")
    ELSE N8NProcessingResult(FALSE, "None", o.kind)

\* the transcript text of a workflow answer
WorkflowTranscript == <<"a", "a", "a">>

\* fallback_result["transcript"]
FallbackTranscript == <<"Voice", "recorded", "successfully">>

\* n8n_result.result.get('transcript', '') if n8n_result.result else '':
\* the value, and whether it is a str
ResultTranscript(res) ==
    CASE res = "transcript" -> [str |-> TRUE, text |-> WorkflowTranscript]
      [] res = "fallback" -> [str |-> TRUE, text |-> FallbackTranscript]
      [] res = "null_transcript" -> [str |-> FALSE, text |-> <<>>]
      [] OTHER -> [str |-> TRUE, text |-> <<>>]

\* variant: the payload carries no sentinel text
MessagePayload_NoSentinel(transcript, audio_filename) ==
    [transcript |-> IF transcript = SentinelNoMatch THEN <<>> ELSE transcript,
     audioFileName |-> audio_filename]

\* process_voice_message: payload = {"userId", "transcript",
\* "audioFileName", "timestamp"}
MessagePayload(transcript, audio_filename) ==
    [transcript |-> transcript, audioFileName |-> audio_filename]

\* nothing was posted
NoPayload == [transcript |-> <<>>, audioFileName |-> NoPath]

\* variant: every record is stored as processed
VoiceActionCreate_Processed(audioTranscript, audioFileName, processed) ==
    [audioTranscript |-> audioTranscript,
     audioFileName |-> audioFileName,
     processed |-> TRUE]

\* VoiceActionCreate(userId=..., audioTranscript=..., audioFileName=...,
\* processed=...)
VoiceActionCreate(audioTranscript, audioFileName, processed) ==
    [audioTranscript |-> audioTranscript,
     audioFileName |-> audioFileName,
     processed |-> processed]

\* the audioFileName field: processed_file_path.name in upload_audio,
\* audio.filename in voice_message_webhook
FileNameField(path, name) == [path |-> path, name |-> name]

\* no handler is running in the slot
NoApi ==
    [pc |-> "idle",          \* idle, validate, process, processing, n8n, store, done
     endpoint |-> "none",    \* upload_audio, voice_message_webhook
     filename |-> <<>>,      \* file.filename / audio.filename
     size |-> 0,             \* len(content)
     transcription |-> <<>>, \* local transcription / transcript
     processed_filename |-> NoPath,
     n8n_result |-> NoN8N,
     status |-> 0,           \* status of the response, 0 while there is none
     actionId |-> 0,         \* created_action.id in the response
     pipeline |-> "none",    \* none, returned, raised (history)
     calls |-> 0,            \* process_audio_file calls (history)
     outcome |-> [kind |-> "none", status |-> 0, body |-> ""],
     posted |-> NoPayload,   \* the payload posted to the workflow (history)
     posts |-> 0,            \* client.post calls (history)
     inserts |-> 0,          \* insert_one calls that stored (history)
     postsAtInsert |-> 0]    \* client.post calls made before the insert (history)

\* the state after the module is imported: audio_processor and
\* language_detector are constructed, the directory exists and is empty
InitEnv(e) ==
    /\ mtime = [p \in Paths |-> 0]
    /\ now = 0
    /\ sweep = NoSweep
    /\ env = e
    /\ dir = {}
    /\ pc = [r \in Reqs |-> "idle"]
    /\ kind = [r \in Reqs |-> "none"]
    /\ filename = [r \in Reqs |-> <<>>]
    /\ temp_file_path = [r \in Reqs |-> NoPath]
    /\ processed_file_path = [r \in Reqs |-> NoPath]
    /\ flac_path = [r \in Reqs |-> NoPath]
    /\ transcription = [r \in Reqs |-> <<>>]
    /\ exc = [r \in Reqs |-> NoExc]
    /\ result = [r \in Reqs |-> NoResult]
    /\ hist = [r \in Reqs |-> NoHist]
    /\ api = [r \in Reqs |-> NoApi]
    /\ db = <<>>

Init == InitEnv(FullEnv)

\* variant: the file counts as removed although unlink raised
CleanupFile_IgnoresFailure(d, p, unlinkOk) ==
    IF p # NoPath /\ p \in d THEN d \ {p} ELSE d

\* _cleanup_file(file_path): the directory afterwards; unlinkOk is whether
\* file_path.unlink() succeeds
CleanupFile(d, p, unlinkOk) ==
    IF p # NoPath /\ p \in d THEN (IF unlinkOk THEN d \ {p} ELSE d) ELSE d

\* whether that _cleanup_file call logged a failed unlink
CleanupFailed(d, p, unlinkOk) == p # NoPath /\ p \in d /\ ~unlinkOk

\* the paths written in this step: the files the calls newly record as created
Written == UNION {hist'[r].created \ hist[r].created : r \in Reqs}

\* what a step of a call means for the rest of the state: the filesystem
\* stamps st_mtime on every written file, a running sweep is no longer alone
\* once the directory changes
RequestEnv ==
    /\ mtime' = [p \in Paths |->
                    IF p \in Written THEN now
                    ELSE IF p \notin dir' THEN 0 ELSE mtime[p]]
    /\ sweep' = IF sweep.pc \in {"iter", "stat", "cleanup"}
                   /\ (dir' # dir \/ Written # {})
                THEN [sweep EXCEPT !.disturbed = TRUE,
                                   !.listed = {},
                                   !.mtime0 = [p \in Paths |-> 0]]
                ELSE sweep
    /\ UNCHANGED <<now, env>>
    /\ UNCHANGED apiVars

\* the entry point is called.  The entry points are coroutines without a
\* suspension point that yields to the event loop, so within one process a
\* call runs to its end before the loop starts the next one or a sweep;
\* only another worker process or an out-of-band sweep runs beside it.
Start(r) ==
    /\ pc[r] = "idle"
    /\ env.parallel \/ \A q \in Reqs \ {r} : pc[q] = "idle"
    /\ env.outOfBand \/ sweep.pc = "idle"
    /\ Cardinality(dir) <= MaxDirAtStart
    /\ \E k \in env.kinds, fn \in env.filenames :
        /\ kind' = [kind EXCEPT ![r] = k]
        /\ filename' = [filename EXCEPT ![r] = fn]
    /\ pc' = [pc EXCEPT ![r] = "persist"]
    /\ UNCHANGED <<dir, temp_file_path, processed_file_path, flac_path,
                   transcription, exc, result, hist>>
    /\ RequestEnv

\* _save_temp_file: NamedTemporaryFile(delete=False, dir, suffix) picks a
\* name that is not in the directory, then content is written
SaveTempFile(r) ==
    /\ pc[r] = "persist"
    /\ \/ \* the file is created and written
          \E s \in Stems :
            LET p == [stem |-> s, suffix |-> TempSuffix(filename[r])] IN
            /\ p \notin dir
            /\ dir' = dir \cup {p}
            /\ temp_file_path' = [temp_file_path EXCEPT ![r] = p]
            /\ hist' = [hist EXCEPT ![r].persist = "ok",
                                    ![r].created = @ \cup {p}]
            /\ pc' = [pc EXCEPT ![r] = "convert"]
            /\ exc' = exc
       \/ \* the file is created, temp_file.write raises; delete=False
          \* leaves the file
          \E s \in Stems :
            LET p == [stem |-> s, suffix |-> TempSuffix(filename[r])] IN
            /\ p \notin dir
            /\ dir' = dir \cup {p}
            /\ hist' = [hist EXCEPT ![r].persist = "write_fail",
                                    ![r].created = @ \cup {p}]
            /\ exc' = [exc EXCEPT ![r] = IOExc]
            /\ pc' = [pc EXCEPT ![r] = "except"]
            /\ temp_file_path' = temp_file_path
       \/ \* the file cannot be created
          /\ hist' = [hist EXCEPT ![r].persist = "create_fail"]
          /\ exc' = [exc EXCEPT ![r] = IOExc]
          /\ pc' = [pc EXCEPT ![r] = "except"]
          /\ UNCHANGED <<dir, temp_file_path>>
    /\ UNCHANGED <<kind, filename, processed_file_path, flac_path,
                   transcription, result>>
    /\ RequestEnv

\* _convert_to_wav(temp_file_path), up to AudioSegment.from_file (the same
\* code in AudioProcessor and in LanguageDetector)
ConvertDecode(r) ==
    /\ pc[r] = "convert"
    /\ LET input_path == temp_file_path[r] IN
       IF IsWav(input_path)
       THEN \* already WAV: returned as is
            /\ processed_file_path' = [processed_file_path EXCEPT ![r] = input_path]
            /\ hist' = [hist EXCEPT ![r].conv = "skipped"]
            /\ pc' = [pc EXCEPT ![r] = "transcribe"]
       ELSE \/ \* from_file decodes the upload
               /\ input_path \in dir
               /\ pc' = [pc EXCEPT ![r] = "export"]
               /\ UNCHANGED <<processed_file_path, hist>>
            \/ \* from_file raises: proceed with the original file
               /\ processed_file_path' = [processed_file_path EXCEPT ![r] = input_path]
               /\ hist' = [hist EXCEPT ![r].conv = "decode_fail"]
               /\ pc' = [pc EXCEPT ![r] = "transcribe"]
    /\ UNCHANGED <<dir, kind, filename, temp_file_path, flac_path,
                   transcription, exc, result>>
    /\ RequestEnv

\* _convert_to_wav from output_path = input_path.with_suffix('.wav') on:
\* audio.export(output_path, format="wav")
ConvertExport(r) ==
    /\ pc[r] = "export"
    /\ LET input_path == temp_file_path[r]
           output_path == WithSuffix(input_path, ".wav") IN
       \/ \* the WAV copy is written
          /\ dir' = dir \cup {output_path}
          /\ processed_file_path' = [processed_file_path EXCEPT ![r] = output_path]
          /\ hist' = [hist EXCEPT ![r].conv = "ok",
                                  ![r].created = @ \cup {output_path}]
       \/ \* export raises after it opened the output file
          /\ dir' = dir \cup {output_path}
          /\ processed_file_path' = [processed_file_path EXCEPT ![r] = input_path]
          /\ hist' = [hist EXCEPT ![r].conv = "export_partial",
                                  ![r].created = @ \cup {output_path}]
       \/ \* export raises before it opened the output file
          /\ dir' = dir
          /\ processed_file_path' = [processed_file_path EXCEPT ![r] = input_path]
          /\ hist' = [hist EXCEPT ![r].conv = "export_fail"]
    /\ pc' = [pc EXCEPT ![r] = "transcribe"]
    /\ UNCHANGED <<kind, filename, temp_file_path, flac_path,
                   transcription, exc, result>>
    /\ RequestEnv

\* the outcomes of opening audio_path and recognizing it: Ok or an
\* exception; a file that is not there cannot be opened
BackendOutcomes(d, audio_path) ==
    IF audio_path \in d THEN {Ok} \cup env.excs
    ELSE {e \in env.excs : e.type = "FileNotFoundError"}

\* AudioProcessor._transcribe_audio(processed_file_path), the primary attempt
AP_TranscribeAudio(r) ==
    /\ pc[r] = "transcribe"
    /\ kind[r] = "transcribe"
    /\ \E o \in BackendOutcomes(dir, processed_file_path[r]) :
        /\ IF o = Ok
           THEN /\ \E text \in env.texts :
                     transcription' = [transcription EXCEPT ![r] = text]
                /\ pc' = [pc EXCEPT ![r] = "return"]
                /\ exc' = exc
           ELSE LET h == AP_TranscribeHandler(o) IN
                /\ transcription' = [transcription EXCEPT ![r] = h.text]
                /\ pc' = [pc EXCEPT ![r] =
                            CASE h.do = "return" -> "return"
                              [] h.do = "fallback" -> "flac_decode"
                              [] OTHER -> "except"]
                /\ exc' = [exc EXCEPT ![r] = IF h.do = "raise" THEN o ELSE @]
        /\ hist' = [hist EXCEPT
                      ![r].primary = o,
                      ![r].primaryPath = processed_file_path[r],
                      ![r].primaries = @ + 1,
                      ![r].fallbacks =
                          IF o # Ok /\ AP_TranscribeHandler(o).do = "fallback"
                          THEN @ + 1 ELSE @]
    /\ UNCHANGED <<dir, kind, filename, temp_file_path, processed_file_path,
                   flac_path, result>>
    /\ RequestEnv

\* leaving _try_flac_fallback through its except clause
\* (made: the files the fallback created before the exception)
FallbackFails(r, e, why, made) ==
    LET h == AP_FallbackHandler(e) IN
    /\ transcription' = [transcription EXCEPT ![r] = h.text]
    /\ pc' = [pc EXCEPT ![r] = IF h.do = "raise" THEN "except" ELSE "return"]
    /\ exc' = [exc EXCEPT ![r] = IF h.do = "raise" THEN e ELSE @]
    /\ hist' = [hist EXCEPT ![r].retry = why, ![r].created = @ \cup made]

\* _try_flac_fallback: AudioSegment.from_wav(audio_path)
FlacDecode(r) ==
    /\ pc[r] = "flac_decode"
    /\ \/ /\ processed_file_path[r] \in dir
          /\ pc' = [pc EXCEPT ![r] = "flac_export"]
          /\ UNCHANGED <<transcription, exc, hist>>
       \/ FallbackFails(r, IOExc, "decode_fail", {})
    /\ UNCHANGED <<dir, kind, filename, temp_file_path, processed_file_path,
                   flac_path, result>>
    /\ RequestEnv

\* _try_flac_fallback: flac_path = audio_path.with_suffix('.flac');
\* audio.export(flac_path, format="flac")
FlacExport(r) ==
    /\ pc[r] = "flac_export"
    /\ LET fp == WithSuffix(processed_file_path[r], ".flac") IN
       /\ flac_path' = [flac_path EXCEPT ![r] = fp]
       /\ \/ \* the FLAC copy is written
             /\ dir' = dir \cup {fp}
             /\ hist' = [hist EXCEPT ![r].created = @ \cup {fp}]
             /\ pc' = [pc EXCEPT ![r] = "flac_retry"]
             /\ UNCHANGED <<transcription, exc>>
          \/ \* export raises after it opened the output file
             /\ dir' = dir \cup {fp}
             /\ FallbackFails(r, IOExc, "export_partial", {fp})
          \/ \* export raises before it opened the output file
             /\ dir' = dir
             /\ FallbackFails(r, IOExc, "export_fail", {})
    /\ UNCHANGED <<kind, filename, temp_file_path, processed_file_path, result>>
    /\ RequestEnv

\* _try_flac_fallback: the retry on the FLAC file (transcription holds the
\* local `text`)
FlacRetry(r) ==
    /\ pc[r] = "flac_retry"
    /\ \E o \in BackendOutcomes(dir, flac_path[r]) :
        IF o = Ok
        THEN /\ \E text \in env.texts :
                  transcription' = [transcription EXCEPT ![r] = text]
             /\ pc' = [pc EXCEPT ![r] = "flac_cleanup"]
             /\ hist' = [hist EXCEPT ![r].retry = "ok"]
             /\ exc' = exc
        ELSE FallbackFails(r, o, o.type, {})
    /\ UNCHANGED <<dir, kind, filename, temp_file_path, processed_file_path,
                   flac_path, result>>
    /\ RequestEnv

\* _try_flac_fallback: self._cleanup_file(flac_path); return text
FlacCleanup(r) ==
    /\ pc[r] = "flac_cleanup"
    /\ \E unlinkOk \in env.unlinkOks :
        /\ dir' = CleanupFile(dir, flac_path[r], unlinkOk)
        /\ hist' = [hist EXCEPT ![r].unlinkFailed =
                        @ \/ CleanupFailed(dir, flac_path[r], unlinkOk)]
    /\ pc' = [pc EXCEPT ![r] = "return"]
    /\ UNCHANGED <<kind, filename, temp_file_path, processed_file_path,
                   flac_path, transcription, exc, result>>
    /\ RequestEnv

\* process_audio_file: return transcription, processed_file_path.name
AP_Return(r) ==
    /\ pc[r] = "return"
    /\ kind[r] = "transcribe"
    /\ result' = [result EXCEPT ![r] =
                    [text |-> transcription[r],
                     name |-> processed_file_path[r],
                     language |-> ""]]
    /\ pc' = [pc EXCEPT ![r] = "finally"]
    /\ UNCHANGED <<dir, kind, filename, temp_file_path, processed_file_path,
                   flac_path, transcription, exc, hist>>
    /\ RequestEnv

\* process_audio_file: except Exception: log and raise
AP_Except(r) ==
    /\ pc[r] = "except"
    /\ kind[r] = "transcribe"
    /\ pc' = [pc EXCEPT ![r] = "finally"]
    /\ UNCHANGED <<dir, kind, filename, temp_file_path, processed_file_path,
                   flac_path, transcription, exc, result, hist>>
    /\ RequestEnv

\* variant: a call that raised starts over
ExitPc_StartsOver(e) == IF e = NoExc THEN "returned" ELSE "persist"

\* how the call leaves its finally block
ExitPc(e) == IF e = NoExc THEN "returned" ELSE "raised"

\* process_audio_file: finally: self._cleanup_file(temp_file_path); the
\* converted copy is kept (`pass`)
AP_Finally(r) ==
    /\ pc[r] = "finally"
    /\ kind[r] = "transcribe"
    /\ \E unlinkOk \in env.unlinkOks :
        /\ dir' = CleanupFile(dir, temp_file_path[r], unlinkOk)
        /\ hist' = [hist EXCEPT ![r].unlinkFailed =
                        @ \/ CleanupFailed(dir, temp_file_path[r], unlinkOk)]
    /\ pc' = [pc EXCEPT ![r] = ExitPc(exc[r])]
    /\ UNCHANGED <<kind, filename, temp_file_path, processed_file_path,
                   flac_path, transcription, exc, result>>
    /\ RequestEnv

\* LanguageDetector._transcribe_audio(processed_file_path)
LD_TranscribeAudio(r) ==
    /\ pc[r] = "transcribe"
    /\ kind[r] = "detect"
    /\ \E o \in BackendOutcomes(dir, processed_file_path[r]) :
        /\ IF o = Ok
           THEN /\ \E text \in env.texts :
                     transcription' = [transcription EXCEPT ![r] = text]
                /\ pc' = [pc EXCEPT ![r] = "ld_detect"]
                /\ exc' = exc
           ELSE LET h == LD_TranscribeHandler(o) IN
                /\ transcription' = [transcription EXCEPT ![r] = h.text]
                /\ pc' = [pc EXCEPT ![r] =
                            IF h.do = "raise" THEN "except" ELSE "ld_detect"]
                /\ exc' = [exc EXCEPT ![r] = IF h.do = "raise" THEN o ELSE @]
        /\ hist' = [hist EXCEPT ![r].primary = o,
                                ![r].primaryPath = processed_file_path[r],
                                ![r].primaries = @ + 1]
    /\ UNCHANGED <<dir, kind, filename, temp_file_path, processed_file_path,
                   flac_path, result>>
    /\ RequestEnv

\* detect_language_from_audio from the transcript check to its return,
\* with the call of _detect_language_from_text
LD_DetectText(r) ==
    /\ pc[r] = "ld_detect"
    /\ LET text == transcription[r] IN
       IF NoTranscription(text) \/ TooShort(text)
       THEN /\ result' = [result EXCEPT ![r].language = DefaultLanguage]
            /\ hist' = hist
       ELSE \/ \* detect(cleaned_text) answers a code
               \E detected_code \in env.codes :
                 /\ result' = [result EXCEPT ![r].language =
                                  LanguageName(detected_code)]
                 /\ hist' = [hist EXCEPT ![r].classifierCalls = @ + 1,
                                         ![r].code = detected_code]
            \/ \* detect(cleaned_text) raises
               \E e \in env.cexcs :
                 /\ result' = [result EXCEPT ![r].language =
                                  LD_ClassifierHandler(e)]
                 /\ hist' = [hist EXCEPT ![r].classifierCalls = @ + 1,
                                         ![r].classifierExc = e.type]
    /\ pc' = [pc EXCEPT ![r] = "finally"]
    /\ UNCHANGED <<dir, kind, filename, temp_file_path, processed_file_path,
                   flac_path, transcription, exc>>
    /\ RequestEnv

\* detect_language_from_audio: except Exception: return "English"
LD_Except(r) ==
    /\ pc[r] = "except"
    /\ kind[r] = "detect"
    /\ result' = [result EXCEPT ![r].language = DefaultLanguage]
    /\ exc' = [exc EXCEPT ![r] = NoExc]
    /\ pc' = [pc EXCEPT ![r] = "finally"]
    /\ UNCHANGED <<dir, kind, filename, temp_file_path, processed_file_path,
                   flac_path, transcription, hist>>
    /\ RequestEnv

\* detect_language_from_audio: finally: self._cleanup_file(temp_file_path)
LD_Finally(r) ==
    /\ pc[r] = "finally"
    /\ kind[r] = "detect"
    /\ \E unlinkOk \in env.unlinkOks :
        /\ dir' = CleanupFile(dir, temp_file_path[r], unlinkOk)
        /\ hist' = [hist EXCEPT ![r].unlinkFailed =
                        @ \/ CleanupFailed(dir, temp_file_path[r], unlinkOk)]
    /\ pc' = [pc EXCEPT ![r] =
                IF processed_file_path[r] # NoPath
                   /\ processed_file_path[r] # temp_file_path[r]
                THEN "finally_processed" ELSE ExitPc(exc[r])]
    /\ UNCHANGED <<kind, filename, temp_file_path, processed_file_path,
                   flac_path, transcription, exc, result>>
    /\ RequestEnv

\* detect_language_from_audio: finally:
\* self._cleanup_file(processed_file_path)
LD_FinallyProcessed(r) ==
    /\ pc[r] = "finally_processed"
    /\ \E unlinkOk \in env.unlinkOks :
        /\ dir' = CleanupFile(dir, processed_file_path[r], unlinkOk)
        /\ hist' = [hist EXCEPT ![r].unlinkFailed =
                        @ \/ CleanupFailed(dir, processed_file_path[r], unlinkOk)]
    /\ pc' = [pc EXCEPT ![r] = ExitPc(exc[r])]
    /\ UNCHANGED <<kind, filename, temp_file_path, processed_file_path,
                   flac_path, transcription, exc, result>>
    /\ RequestEnv

\* the caller has taken the call's result; the slot serves the next call
Finish(r) ==
    /\ pc[r] \in {"returned", "raised"}
    /\ pc' = [pc EXCEPT ![r] = "idle"]
    /\ kind' = [kind EXCEPT ![r] = "none"]
    /\ filename' = [filename EXCEPT ![r] = <<>>]
    /\ temp_file_path' = [temp_file_path EXCEPT ![r] = NoPath]
    /\ processed_file_path' = [processed_file_path EXCEPT ![r] = NoPath]
    /\ flac_path' = [flac_path EXCEPT ![r] = NoPath]
    /\ transcription' = [transcription EXCEPT ![r] = <<>>]
    /\ exc' = [exc EXCEPT ![r] = NoExc]
    /\ result' = [result EXCEPT ![r] = NoResult]
    /\ hist' = [hist EXCEPT ![r] = NoHist]
    /\ dir' = dir
    /\ RequestEnv

Next ==
    \E r \in Reqs :
        \/ Start(r)
        \/ SaveTempFile(r)
        \/ ConvertDecode(r)
        \/ ConvertExport(r)
        \/ AP_TranscribeAudio(r)
        \/ FlacDecode(r)
        \/ FlacExport(r)
        \/ FlacRetry(r)
        \/ FlacCleanup(r)
        \/ AP_Return(r)
        \/ AP_Except(r)
        \/ AP_Finally(r)
        \/ LD_TranscribeAudio(r)
        \/ LD_DetectText(r)
        \/ LD_Except(r)
        \/ LD_Finally(r)
        \/ LD_FinallyProcessed(r)
        \/ Finish(r)

Spec == Init /\ [][Next]_vars

\* ------------------------------------------------- time and the sweep
reqVars == <<pc, kind, filename, temp_file_path, processed_file_path,
             flac_path, transcription, exc, result, hist>>

\* max_age_hours * 3600
SecondsPerHour == 3600
MaxAgeSeconds(max_age_hours) == max_age_hours * SecondsPerHour

\* variant: file_age >= max_age_seconds
TooOld_Geq(file_age, max_age_seconds) == file_age >= max_age_seconds

\* if file_age > max_age_seconds
TooOld(file_age, max_age_seconds) == file_age > max_age_seconds

\* an hour passes; calls and sweeps are short against an hour, the clock
\* advances between them
Tick ==
    /\ now < MaxTicks * SecondsPerHour
    /\ sweep.pc = "idle"
    /\ \A r \in Reqs : pc[r] = "idle"
    /\ now' = now + SecondsPerHour
    /\ UNCHANGED <<dir, mtime, sweep, env>>
    /\ UNCHANGED reqVars
    /\ UNCHANGED apiVars

\* the call is between its entry and its return
InFlight(r) == pc[r] \notin {"idle", "returned", "raised"}

\* call r is about to open file p
WillRead(r, p) ==
    \/ pc[r] \in {"convert", "export"} /\ p = temp_file_path[r]
    \/ pc[r] \in {"transcribe", "flac_decode", "flac_export"}
           /\ p = processed_file_path[r]
    \/ pc[r] = "flac_retry" /\ p = flac_path[r]

\* cleanup_old_files(max_age_hours) is called: current_time = time.time(),
\* iterdir() lists the directory
SweepStart ==
    /\ sweep.pc = "idle"
    /\ env.outOfBand \/ \A r \in Reqs : pc[r] = "idle"
    /\ \E max_age_hours \in 0..MaxAgeHours :
        sweep' = [NoSweep EXCEPT
                    !.pc = "iter",
                    !.current_time = now,
                    !.max_age_seconds = MaxAgeSeconds(max_age_hours),
                    !.todo = dir,
                    !.listed = dir,
                    !.mtime0 = mtime]
    /\ UNCHANGED <<dir, mtime, now, env>>
    /\ UNCHANGED reqVars
    /\ UNCHANGED apiVars

\* cleanup_old_files: the loop takes its next entry and asks is_file()
SweepIsFile ==
    /\ sweep.pc = "iter"
    /\ IF sweep.todo = {}
       THEN sweep' = [sweep EXCEPT !.pc = "done", !.file_path = NoPath]
       ELSE \E file_path \in sweep.todo :
              sweep' = [sweep EXCEPT
                          !.todo = @ \ {file_path},
                          !.file_path = file_path,
                          !.pc = IF file_path \in dir THEN "stat" ELSE "iter"]
    /\ UNCHANGED <<dir, mtime, now, env>>
    /\ UNCHANGED reqVars
    /\ UNCHANGED apiVars

\* cleanup_old_files: file_age = current_time - file_path.stat().st_mtime
\* and the comparison; stat() of a file that is gone raises
SweepStat ==
    /\ sweep.pc = "stat"
    /\ IF sweep.file_path \in dir
       THEN LET file_age == sweep.current_time - mtime[sweep.file_path] IN
            sweep' = [sweep EXCEPT !.pc =
                        IF TooOld(file_age, sweep.max_age_seconds)
                        THEN "cleanup" ELSE "iter"]
       ELSE sweep' = [sweep EXCEPT !.pc = "raised"]
    /\ UNCHANGED <<dir, mtime, now, env>>
    /\ UNCHANGED reqVars
    /\ UNCHANGED apiVars

\* cleanup_old_files: self._cleanup_file(file_path)
SweepCleanup ==
    /\ sweep.pc = "cleanup"
    /\ LET p == sweep.file_path
           users == {r \in Reqs : InFlight(r) /\ p \in dir /\ WillRead(r, p)}
           fast == \A r \in users : \A f \in hist[r].created \cap dir :
                       now - mtime[f] < sweep.max_age_seconds
       IN \E unlinkOk \in env.unlinkOks :
            /\ dir' = CleanupFile(dir, p, unlinkOk)
            /\ sweep' = [sweep EXCEPT
                  !.pc = "iter",
                  !.unlinkFailed =
                      IF CleanupFailed(dir, p, unlinkOk) THEN @ \cup {p} ELSE @,
                  !.inUseDeleted = @ \/ (unlinkOk /\ users # {}),
                  !.ownerFast = @ \/ (unlinkOk /\ users # {} /\ fast)]
    /\ mtime' = [q \in Paths |-> IF q \notin dir' THEN 0 ELSE mtime[q]]
    /\ UNCHANGED <<now, env>>
    /\ UNCHANGED reqVars
    /\ UNCHANGED apiVars

\* the caller of cleanup_old_files has seen it return or raise
SweepFinish ==
    /\ sweep.pc \in {"done", "raised"}
    /\ sweep' = NoSweep
    /\ UNCHANGED <<dir, mtime, now, env>>
    /\ UNCHANGED reqVars
    /\ UNCHANGED apiVars

InitSmall == InitEnv(SmallEnv)

\* the calls, one at a time, with the clock and sweeps between them
NextSweep ==
    \/ Next
    \/ Tick
    \/ SweepStart
    \/ SweepIsFile
    \/ SweepStat
    \/ SweepCleanup
    \/ SweepFinish

SpecSweep == InitSmall /\ [][NextSweep]_vars

\* SpecSweep where what has begun goes on: a call that can take a step and
\* a sweep that has started take their next step.  No caller of
\* cleanup_old_files exists in the application, so nothing makes a sweep
\* start, and nothing makes the clock reach any hour.
FairSweep ==
    /\ InitSmall
    /\ [][NextSweep]_vars
    /\ WF_vars(Next)
    /\ WF_vars(SweepIsFile \/ SweepStat \/ SweepCleanup \/ SweepFinish)

\* the steps of call r between its entry and its exit
CallStep(r) ==
    \/ SaveTempFile(r)
    \/ ConvertDecode(r)
    \/ ConvertExport(r)
    \/ AP_TranscribeAudio(r)
    \/ FlacDecode(r)
    \/ FlacExport(r)
    \/ FlacRetry(r)
    \/ FlacCleanup(r)
    \/ AP_Return(r)
    \/ AP_Except(r)
    \/ AP_Finally(r)
    \/ LD_TranscribeAudio(r)
    \/ LD_DetectText(r)
    \/ LD_Except(r)
    \/ LD_Finally(r)
    \/ LD_FinallyProcessed(r)

\* the calls, one at a time, where every external call (disk, codec,
\* backend, classifier) returns or fails: a started call takes its next
\* statement.  Nothing makes a caller start a call or take its result.
FairCalls ==
    /\ InitSmall
    /\ [][Next]_vars
    /\ \A r \in Reqs : WF_vars(CallStep(r))

InitRace == InitEnv(RaceEnv)

\* one worker's transcribe calls with a sweep running beside them
NextRace ==
    \/ \E r \in Reqs :
        \/ Start(r)
        \/ SaveTempFile(r)
        \/ ConvertDecode(r)
        \/ ConvertExport(r)
        \/ AP_TranscribeAudio(r)
        \/ AP_Return(r)
        \/ AP_Except(r)
        \/ AP_Finally(r)
        \/ Finish(r)
    \/ Tick
    \/ SweepStart
    \/ SweepIsFile
    \/ SweepStat
    \/ SweepCleanup
    \/ SweepFinish

SpecRace == InitRace /\ [][NextRace]_vars

InitConc == InitEnv(ConcEnv)

\* one call in each worker, their steps interleaved
NextConc ==
    \E r \in Reqs :
        \/ Start(r)
        \/ SaveTempFile(r)
        \/ ConvertDecode(r)
        \/ ConvertExport(r)
        \/ AP_TranscribeAudio(r)
        \/ FlacDecode(r)
        \/ FlacExport(r)
        \/ FlacRetry(r)
        \/ FlacCleanup(r)
        \/ AP_Return(r)
        \/ AP_Except(r)
        \/ AP_Finally(r)
        \/ LD_TranscribeAudio(r)
        \/ LD_DetectText(r)
        \/ LD_Except(r)
        \/ LD_Finally(r)
        \/ LD_FinallyProcessed(r)

SpecConc == InitConc /\ [][NextConc]_vars

\* ------------------------------------------- the endpoints of main.py
\* what a step of a handler outside process_audio_file leaves alone
HandlerOnly ==
    /\ UNCHANGED <<dir, mtime, now, sweep, env>>
    /\ UNCHANGED reqVars

\* the except clauses of the handler of endpoint ep
HandlerStatus(ep, e) ==
    IF ep = "upload_audio" THEN UploadHandler(e) ELSE WebhookHandler(e)

\* a POST reaches upload_audio or voice_message_webhook; the handlers run
\* one at a time on the event loop
ApiReceive(r) ==
    /\ api[r].pc = "idle"
    /\ \A q \in Reqs : api[q].pc = "idle" /\ pc[q] = "idle"
    /\ Len(db) < MaxRecords
    /\ \E ep \in {"upload_audio", "voice_message_webhook"},
          fn \in UploadNames, size \in ContentSizes :
        api' = [api EXCEPT ![r] = [NoApi EXCEPT !.pc = "validate",
                                                !.endpoint = ep,
                                                !.filename = fn,
                                                !.size = size]]
    /\ db' = db
    /\ HandlerOnly

\* both handlers: the filename and size checks
ApiValidate(r) ==
    /\ api[r].pc = "validate"
    /\ LET e == ValidateFile(api[r].filename, api[r].size) IN
       api' = [api EXCEPT
                 ![r].pc = IF e # NoApiExc THEN "done"
                           ELSE IF api[r].endpoint = "upload_audio"
                                THEN "process" ELSE "n8n",
                 ![r].status = IF e # NoApiExc
                               THEN HandlerStatus(api[r].endpoint, e) ELSE 0]
    /\ db' = db
    /\ HandlerOnly

\* upload_audio: await audio_processor.process_audio_file(content,
\* file.filename) is entered
UploadProcess(r) ==
    /\ api[r].pc = "process"
    /\ pc[r] = "idle"
    /\ kind' = [kind EXCEPT ![r] = "transcribe"]
    /\ filename' = [filename EXCEPT ![r] = api[r].filename]
    /\ pc' = [pc EXCEPT ![r] = "persist"]
    /\ api' = [api EXCEPT ![r].pc = "processing", ![r].calls = @ + 1]
    /\ UNCHANGED <<dir, temp_file_path, processed_file_path, flac_path,
                   transcription, exc, result, hist, mtime, now, sweep, env,
                   db>>

\* upload_audio: process_audio_file returns its pair or raises
UploadProcessed(r) ==
    /\ api[r].pc = "processing"
    /\ pc[r] \in {"returned", "raised"}
    /\ api' = [api EXCEPT ![r] =
                IF pc[r] = "returned"
                THEN [@ EXCEPT !.pc = "n8n",
                               !.transcription = result[r].text,
                               !.processed_filename = result[r].name,
                               !.pipeline = "returned"]
                ELSE [@ EXCEPT !.pc = "done",
                               !.status = UploadHandler(OtherException),
                               !.pipeline = "raised"]]
    /\ pc' = [pc EXCEPT ![r] = "idle"]
    /\ kind' = [kind EXCEPT ![r] = "none"]
    /\ filename' = [filename EXCEPT ![r] = <<>>]
    /\ temp_file_path' = [temp_file_path EXCEPT ![r] = NoPath]
    /\ processed_file_path' = [processed_file_path EXCEPT ![r] = NoPath]
    /\ flac_path' = [flac_path EXCEPT ![r] = NoPath]
    /\ transcription' = [transcription EXCEPT ![r] = <<>>]
    /\ exc' = [exc EXCEPT ![r] = NoExc]
    /\ result' = [result EXCEPT ![r] = NoResult]
    /\ hist' = [hist EXCEPT ![r] = NoHist]
    /\ UNCHANGED <<dir, mtime, now, sweep, env, db>>

\* upload_audio: await n8n_service.process_voice_message(...);
\* voice_message_webhook: await n8n_service.process_voice_audio(...)
ApiWorkflow(r) ==
    /\ api[r].pc = "n8n"
    /\ \E o \in WebhookOutcomes :
        api' = [api EXCEPT
                  ![r].n8n_result =
                      IF api[r].endpoint = "upload_audio"
                      THEN ProcessVoiceMessage(o) ELSE ProcessVoiceAudio(o),
                  ![r].outcome = o,
                  ![r].posted =
                      IF api[r].endpoint = "upload_audio"
                      THEN MessagePayload(api[r].transcription,
                                          api[r].processed_filename)
                      ELSE NoPayload,
                  ![r].posts = @ + 1,
                  ![r].pc = "store"]
    /\ db' = db
    /\ HandlerOnly

\* both handlers from VoiceActionCreate(...) to the response:
\* create_voice_action is get_collection(), insert_one, find_one,
\* VoiceActionInDB(**created_record)
ApiStore(r) ==
    /\ api[r].pc = "store"
    /\ LET a == api[r]
           upload == a.endpoint = "upload_audio"
           t == IF upload THEN [str |-> TRUE, text |-> a.transcription]
                ELSE ResultTranscript(a.n8n_result.result)
           name == IF upload THEN FileNameField(a.processed_filename, <<>>)
                   ELSE FileNameField(NoPath, a.filename)
           doc == VoiceActionCreate(t.text, name, a.n8n_result.success)
           failed == [a EXCEPT !.pc = "done",
                               !.status = HandlerStatus(a.endpoint, OtherException)]
       IN IF ~t.str
          THEN \* audioTranscript: str refuses the value
               /\ api' = [api EXCEPT ![r] = failed]
               /\ db' = db
          ELSE \/ \* get_collection() or insert_one raises
                  /\ api' = [api EXCEPT ![r] = failed]
                  /\ db' = db
               \/ \* the document is stored, reading it back raises
                  /\ api' = [api EXCEPT ![r] =
                               [failed EXCEPT !.inserts = @ + 1,
                                              !.postsAtInsert = a.posts]]
                  /\ db' = Append(db, doc)
               \/ \* stored and read back: the success response
                  /\ api' = [api EXCEPT ![r] =
                               [a EXCEPT !.pc = "done",
                                         !.status = 200,
                                         !.transcription = t.text,
                                         !.actionId = Len(db) + 1,
                                         !.inserts = @ + 1,
                                         !.postsAtInsert = a.posts]]
                  /\ db' = Append(db, doc)
    /\ HandlerOnly

\* the client has the response
ApiRespond(r) ==
    /\ api[r].pc = "done"
    /\ api' = [api EXCEPT ![r] = NoApi]
    /\ db' = db
    /\ HandlerOnly

InitApi == InitEnv(ApiEnv)

\* the two endpoints, one request at a time
NextApi ==
    \E r \in Reqs :
        \/ ApiReceive(r)
        \/ ApiValidate(r)
        \/ UploadProcess(r)
        \/ SaveTempFile(r)
        \/ ConvertDecode(r)
        \/ ConvertExport(r)
        \/ AP_TranscribeAudio(r)
        \/ AP_Return(r)
        \/ AP_Except(r)
        \/ AP_Finally(r)
        \/ UploadProcessed(r)
        \/ ApiWorkflow(r)
        \/ ApiStore(r)
        \/ ApiRespond(r)

SpecApi == InitApi /\ [][NextApi]_vars

TypeOK ==
    /\ dir \subseteq Paths
    /\ \A r \in Reqs :
        /\ kind[r] \in {"none", "transcribe", "detect"}
        /\ temp_file_path[r] \in Paths \cup {NoPath}
        /\ processed_file_path[r] \in Paths \cup {NoPath}
        /\ flac_path[r] \in Paths \cup {NoPath}

\* ================================================================ claims
Exited(r) == pc[r] \in {"returned", "raised"}

IsFailure(o) == o # NoExc /\ o # Ok

ConvFailures == {"decode_fail", "export_fail", "export_partial"}
PersistFailures == {"create_fail", "write_fail"}

\* the files the claims count as a call's scratch files: the persisted
\* upload, its WAV copy and the FLAC copy, as far as the call created them
ScratchFilesOf(r) ==
    hist[r].created \cap
        {temp_file_path[r], WithSuffix(temp_file_path[r], ".wav"),
         flac_path[r], WithSuffix(processed_file_path[r], ".flac")}

\* C1: when a Transcribe call has returned or raised and no unlink of the
\* call failed, none of the scratch files the call created (upload, WAV
\* copy, FLAC copy) is in the scratch directory.
C1_TranscribeReclaimsScratch ==
    \A r \in Reqs :
        (kind[r] = "transcribe" /\ Exited(r) /\ ~hist[r].unlinkFailed)
            => ScratchFilesOf(r) \cap dir = {}

\* C2: when a DetectLanguage call has returned and no unlink of the call
\* failed, none of the scratch files the call created (upload, WAV copy,
\* also the WAV output of an export that failed part-way) is in the scratch
\* directory.
C2_DetectReclaimsScratch ==
    \A r \in Reqs :
        (kind[r] = "detect" /\ Exited(r) /\ ~hist[r].unlinkFailed)
            => ScratchFilesOf(r) \cap dir = {}

\* the call has entered _try_flac_fallback and left it again
FallbackReturned(r) ==
    /\ hist[r].fallbacks > 0
    /\ pc[r] \in {"return", "except", "finally", "returned", "raised"}

\* the fallback wrote the FLAC file and retried the transcription on it
RetryAttempted(r) == hist[r].retry \in {"ok"} \cup BackendExcTypes

\* C3: once the FLAC fallback has returned, the FLAC file it created is not
\* in the scratch directory, whether the retry succeeded or failed (a failed
\* unlink excepted).
C3_FlacRemovedAfterFallback ==
    \A r \in Reqs :
        (FallbackReturned(r) /\ RetryAttempted(r)
         /\ flac_path[r] \in hist[r].created /\ ~hist[r].unlinkFailed)
            => flac_path[r] \notin dir

\* the five documented sentinel texts (the last one with its detail)
FixedSentinels ==
    {SentinelNoMatch, SentinelService, SentinelFile, SentinelFormat}
IsErrorSentinel(t) ==
    /\ Len(t) >= 2
    /\ SubSeq(t, 1, 2) = <<"Transcription error:", " ">>
IsSentinel(t) == t \in FixedSentinels \/ IsErrorSentinel(t)

\* C4: a Transcribe call whose upload was persisted never raises, whatever
\* conversion, primary transcription and fallback do; it returns a pair whose
\* text is a backend transcript or one of the five sentinel texts and whose
\* name is a file name.
C4_TranscribeNeverRaisesOncePersisted ==
    \A r \in Reqs :
        (kind[r] = "transcribe" /\ hist[r].persist = "ok") =>
            /\ pc[r] \notin {"except", "raised"}
            /\ exc[r] = NoExc
            /\ pc[r] = "returned" =>
                /\ result[r].text \in Transcripts \/ IsSentinel(result[r].text)
                /\ result[r].name \in Paths

\* C4 witness: a persisted call returned after conversion failed, the
\* primary attempt hit the codec condition and the fallback retry failed
C4_Witness ==
    \E r \in Reqs :
        /\ kind[r] = "transcribe" /\ pc[r] = "returned"
        /\ hist[r].persist = "ok"
        /\ hist[r].conv = "decode_fail"
        /\ hist[r].primary = Exc("OSError", <<FlacMarker>>)
        /\ hist[r].retry = "RequestError"
        /\ result[r].text = SentinelFormat

\* the twenty language names of the specification
LanguageNames ==
    {"English", "Spanish", "French", "German", "Italian", "Portuguese",
     "Russian", "Chinese", "Japanese", "Korean", "Arabic", "Hindi", "Dutch",
     "Swedish", "Norwegian", "Danish", "Finnish", "Polish", "Turkish",
     "Hebrew"}

\* C5: a DetectLanguage call never raises, whatever fails, and what it
\* returns is one of the twenty language names, English among them.
C5_DetectTotal ==
    /\ Cardinality(LanguageNames) = 20
    /\ \A r \in Reqs :
        kind[r] = "detect" =>
            /\ pc[r] # "raised"
            /\ pc[r] \in {"finally", "finally_processed"} => exc[r] = NoExc
            /\ pc[r] = "returned" => result[r].language \in LanguageNames

\* C5 witness: a call whose classifier answered a code outside the table
\* has returned
C5_Witness ==
    \E r \in Reqs :
        /\ kind[r] = "detect" /\ pc[r] = "returned"
        /\ hist[r].code = "xx"
        /\ result[r].language = "English"

\* C6: a Transcribe call raises exactly when the write of the scratch file
\* failed, and then no conversion and no transcription was attempted; a
\* failed conversion and every failure of the backend are returned as data.
C6_OnlyPersistFailureRaises ==
    \A r \in Reqs :
        (kind[r] = "transcribe" /\ Exited(r)) =>
            /\ pc[r] = "raised" <=> hist[r].persist \in PersistFailures
            /\ pc[r] = "raised" =>
                /\ exc[r] = IOExc
                /\ hist[r].conv = "none"
                /\ hist[r].primaries = 0
                /\ hist[r].fallbacks = 0
            /\ (\/ hist[r].conv \in ConvFailures
                \/ IsFailure(hist[r].primary)
                \/ hist[r].retry \notin {"none", "ok"}) =>
                    /\ pc[r] = "returned"
                    /\ exc[r] = NoExc
                    /\ result[r].text = transcription[r]

\* C6 witness: a call raised after a failed write, before any transcription
C6_Witness ==
    \E r \in Reqs :
        /\ kind[r] = "transcribe" /\ pc[r] = "raised"
        /\ hist[r].persist = "write_fail"
        /\ hist[r].primaries = 0

\* C6 witness of the other half: a failed conversion followed by a backend
\* failure is returned as data
C6_WitnessData ==
    \E r \in Reqs :
        /\ kind[r] = "transcribe" /\ pc[r] = "returned"
        /\ hist[r].conv = "export_fail"
        /\ hist[r].primary = Exc("OSError", <<"detail">>)

\* the primary attempt of a Transcribe call failed and its answer is known
PrimaryFailed(r) ==
    /\ kind[r] = "transcribe"
    /\ pc[r] \in {"return", "finally", "returned"}
    /\ IsFailure(hist[r].primary)
    /\ hist[r].fallbacks = 0

\* the answer of the primary attempt, as the call holds or returns it
PrimaryText(r) ==
    IF pc[r] = "return" THEN transcription[r] ELSE result[r].text

\* C7: in the primary attempt no-match answers the "could not understand"
\* text, a service error the "service error" text, a missing file the "file
\* processing error" text and any other failure without the codec text
\* "Transcription error: <detail>"; each text comes from its own category only.
C7_SentinelPerCategory ==
    \A r \in Reqs :
        PrimaryFailed(r) =>
            LET e == hist[r].primary
                t == PrimaryText(r) IN
            /\ e.type = "UnknownValueError" <=> t = SentinelNoMatch
            /\ e.type = "RequestError" <=> t = SentinelService
            /\ e.type = "FileNotFoundError" <=> t = SentinelFile
            /\ e.type = "OSError" <=>
                   t = <<"Transcription error:", " ">> \o e.msg
            /\ e.type = "OSError" => FlacMarker \notin {e.msg[i] : i \in 1..Len(e.msg)}
            /\ t # SentinelFormat

\* C7 witness: a call returned the file text after FileNotFoundError
C7_Witness ==
    \E r \in Reqs :
        /\ PrimaryFailed(r) /\ pc[r] = "returned"
        /\ hist[r].primary.type = "FileNotFoundError"
        /\ result[r].text = SentinelFile

\* C7 witness of the generic category
C7_WitnessOther ==
    \E r \in Reqs :
        /\ PrimaryFailed(r) /\ pc[r] = "returned"
        /\ hist[r].primary = Exc("OSError", <<"detail">>)
        /\ result[r].text = <<"Transcription error:", " ", "detail">>

\* a DetectLanguage call is past its transcript check and classification
Detected(r) ==
    /\ kind[r] = "detect"
    /\ pc[r] \in {"finally", "finally_processed", "returned"}

\* C8 as claimed: in DetectLanguage a failure of any upstream stage, a
\* failed conversion included, gives "English" without a classifier call.
C8_AnyUpstreamFailureDefaults ==
    \A r \in Reqs :
        (Detected(r) /\ (\/ hist[r].persist \in PersistFailures
                         \/ hist[r].conv \in ConvFailures
                         \/ IsFailure(hist[r].primary))) =>
            /\ result[r].language = "English"
            /\ hist[r].classifierCalls = 0

\* C8 amended: in DetectLanguage a failed persist and every failure of the
\* transcription (no match, service error, codec utility, missing file,
\* other) give "English" without a classifier call; after a failed
\* conversion the transcription is attempted on the original file.
C8_PersistOrTranscriptionFailureDefaults ==
    \A r \in Reqs :
        /\ (Detected(r) /\ (\/ hist[r].persist \in PersistFailures
                            \/ IsFailure(hist[r].primary))) =>
                /\ result[r].language = "English"
                /\ hist[r].classifierCalls = 0
        /\ (Detected(r) /\ hist[r].conv \in ConvFailures) =>
                /\ hist[r].primaries = 1
                /\ hist[r].primaryPath = temp_file_path[r]

\* C8 witness: a call returned English after the backend reported the
\* missing codec utility
C8_Witness ==
    \E r \in Reqs :
        /\ Detected(r) /\ pc[r] = "returned"
        /\ hist[r].primary = Exc("OSError", <<FlacMarker>>)
        /\ result[r].language = "English"
        /\ hist[r].classifierCalls = 0

\* the length of t without its leading and trailing spaces
TrimmedLen(t) ==
    LET solid == {i \in 1..Len(t) : t[i] # " "} IN
    IF solid = {} THEN 0
    ELSE (CHOOSE i \in solid : \A j \in solid : j <= i)
         - (CHOOSE i \in solid : \A j \in solid : i <= j) + 1

\* C9: a transcript that is empty, only spaces, or shorter than 3
\* characters once trimmed gives "English", and the classifier is not called.
C9_ShortTranscriptDefaults ==
    \A r \in Reqs :
        (Detected(r) /\ hist[r].primary = Ok /\ TrimmedLen(transcription[r]) < 3)
            => /\ result[r].language = "English"
               /\ hist[r].classifierCalls = 0

\* C9 witness: a call returned for a transcript of two characters between
\* spaces
C9_Witness ==
    \E r \in Reqs :
        /\ Detected(r) /\ pc[r] = "returned"
        /\ hist[r].primary = Ok
        /\ Len(transcription[r]) = 3 /\ TrimmedLen(transcription[r]) = 2
        /\ result[r].language = "English"

\* C10: for a transcript of at least 3 trimmed characters the classifier is
\* called once; a code of the table gives its entry ("es" gives "Spanish"),
\* a code outside the table and a classifier exception give "English".
C10_ClassifiedByTable ==
    \A r \in Reqs :
        (Detected(r) /\ hist[r].primary = Ok /\ TrimmedLen(transcription[r]) >= 3)
            => /\ hist[r].classifierCalls = 1
               /\ hist[r].code \in DOMAIN language_mapping =>
                      result[r].language = language_mapping[hist[r].code]
               /\ hist[r].code = "es" => result[r].language = "Spanish"
               /\ hist[r].code = "he" => result[r].language = "Hebrew"
               /\ hist[r].code \notin DOMAIN language_mapping =>
                      result[r].language = "English"
               /\ hist[r].classifierExc # "" =>
                      hist[r].code = "" /\ result[r].language = "English"
               /\ Cardinality(DOMAIN language_mapping) = 20

\* C10 witness: a call returned Spanish for the code "es"
C10_Witness ==
    \E r \in Reqs :
        /\ Detected(r) /\ pc[r] = "returned"
        /\ TrimmedLen(transcription[r]) >= 3
        /\ hist[r].code = "es"
        /\ result[r].language = "Spanish"

\* C10 witness of the exception case
C10_WitnessRaise ==
    \E r \in Reqs :
        /\ Detected(r) /\ pc[r] = "returned"
        /\ hist[r].classifierExc = "LangDetectException"
        /\ result[r].language = "English"

\* the sweep has gone through its listing and no call touched the
\* directory meanwhile
SweepAlone == sweep.pc = "done" /\ ~sweep.disturbed

\* the age the sweep computes for a listed file
AgeAtListing(p) == sweep.current_time - sweep.mtime0[p]

C12_SweepNeverRaises == sweep.pc # "raised"

\* no call is running, p is still in the directory and is older than the
\* largest threshold
Leftover(p) ==
    /\ p \in dir
    /\ \A r \in Reqs : pc[r] = "idle"
    /\ now - mtime[p] > MaxAgeSeconds(MaxAgeHours)

\* C13: a file that is left in the scratch directory after its call and is
\* older than the threshold is eventually removed.
C13_LeftoverEventuallyReclaimed ==
    \A p \in Paths : Leftover(p) ~> (p \notin dir)

\* C14: in a Transcribe call the FLAC fallback is entered at most once, and
\* only after a primary attempt that failed with the codec text in a failure
\* that is none of no-match, service error and missing file; the retry's own
\* failure starts no further attempt.
C14_FallbackOnlyOnCodecOnce ==
    \A r \in Reqs :
        kind[r] = "transcribe" =>
            /\ hist[r].fallbacks <= 1
            /\ hist[r].primaries <= 1
            /\ hist[r].fallbacks = 1 =>
                /\ hist[r].primary.type = "OSError"
                /\ FlacMarker \in
                       {hist[r].primary.msg[i] : i \in 1..Len(hist[r].primary.msg)}
            /\ pc[r] \in {"flac_decode", "flac_export", "flac_retry", "flac_cleanup"}
                   => hist[r].fallbacks = 1
            /\ hist[r].retry # "none" => hist[r].fallbacks = 1

\* C14 witness: a call returned whose retry failed with the codec condition
\* again
C14_Witness ==
    \E r \in Reqs :
        /\ kind[r] = "transcribe" /\ pc[r] = "returned"
        /\ hist[r].fallbacks = 1
        /\ hist[r].retry = "OSError"

\* C15: when the fallback was entered, the call returns the "unable to
\* process audio format" text if any step of the fallback failed, whatever
\* the kind of the retry's failure, and a backend transcript if the retry
\* succeeded.
C15_FallbackFailureIsFormatSentinel ==
    \A r \in Reqs :
        (kind[r] = "transcribe" /\ hist[r].fallbacks > 0
         /\ pc[r] \in {"return", "finally", "returned"}) =>
            LET t == IF pc[r] = "return" THEN transcription[r]
                     ELSE result[r].text IN
            /\ hist[r].retry # "none"
            /\ hist[r].retry = "ok" => t \in Transcripts
            /\ hist[r].retry # "ok" =>
                   t = <<"Audio conversion error.", " ",
                         "Unable to process audio format. Please try recording in WAV format.">>

\* C15 witness: a call returned after its retry ended in no-match
C15_Witness ==
    \E r \in Reqs :
        /\ kind[r] = "transcribe" /\ pc[r] = "returned"
        /\ hist[r].fallbacks = 1
        /\ hist[r].retry = "UnknownValueError"
        /\ result[r].text = SentinelFormat

\* C15 witness of the success case
C15_WitnessRetryOk ==
    \E r \in Reqs :
        /\ kind[r] = "transcribe" /\ pc[r] = "returned"
        /\ hist[r].retry = "ok"
        /\ result[r].text = <<"a", "a", "a">>

\* normalization of the call is over
Normalized(r) == hist[r].conv # "none"

\* the primary transcription of the call is over
Transcribed(r) == hist[r].primary # NoExc

\* C16: normalization fails no request.  An upload whose suffix is .wav in
\* any case goes to transcription unchanged, with no decode and no new file;
\* for another suffix a successful conversion gives a distinct .wav copy,
\* which is transcribed; after a failed conversion the original file is
\* transcribed.
C16_NormalizationNeverFails ==
    \A r \in Reqs :
        Normalized(r) =>
            LET t == temp_file_path[r]
                w == [stem |-> t.stem, suffix |-> ".wav"] IN
            /\ pc[r] \notin {"except", "raised"}
            /\ exc[r] = NoExc
            /\ t.suffix \in {".wav", ".WAV"} =>
                /\ hist[r].conv = "skipped"
                /\ processed_file_path[r] = t
                /\ (hist[r].created \ {flac_path[r]}) = {t}
            /\ t.suffix \notin {".wav", ".WAV"} => hist[r].conv # "skipped"
            /\ hist[r].conv = "ok" =>
                /\ processed_file_path[r] = w
                /\ w # t
                /\ w \in hist[r].created
            /\ hist[r].conv \in ConvFailures => processed_file_path[r] = t
            /\ Transcribed(r) =>
                /\ hist[r].primaries = 1
                /\ hist[r].primaryPath = processed_file_path[r]
            /\ Exited(r) => Transcribed(r)

\* C16 witness: an upload named .WAV was transcribed as it is
C16_Witness ==
    \E r \in Reqs :
        /\ pc[r] = "returned"
        /\ temp_file_path[r].suffix = ".WAV"
        /\ hist[r].conv = "skipped"
        /\ hist[r].primaryPath = temp_file_path[r]

\* C16 witness of the failed conversion
C16_WitnessFailed ==
    \E r \in Reqs :
        /\ pc[r] = "returned"
        /\ hist[r].conv = "decode_fail"
        /\ hist[r].primary = Ok
        /\ hist[r].primaryPath = temp_file_path[r]

\* the scratch paths call r has written or holds in its locals
Touches(r) ==
    (hist[r].created
        \cup {temp_file_path[r], processed_file_path[r], flac_path[r]})
    \ {NoPath}

\* C17: no two calls in flight write, read or delete the same scratch path:
\* the upload paths and the .wav and .flac paths derived from them are
\* pairwise different between the calls.
C17_CallsUseDisjointPaths ==
    \A r, q \in Reqs :
        (r # q /\ InFlight(r) /\ InFlight(q))
            => Touches(r) \cap Touches(q) = {}

\* C18: a sweep never unlinks a file that a running call is about to open
\* when all files of that call are younger than the sweep's threshold.
C18_SweepSparesFilesInUse == ~sweep.ownerFast

\* a step of call r that is one _cleanup_file(p) call
ReclaimStep(r, p) ==
    /\ dir' \in {dir, dir \ {p}}
    /\ p \notin dir => dir' = dir
    /\ (p \in dir /\ dir' = dir) => hist'[r].unlinkFailed
    /\ (p \in dir /\ dir' # dir) => hist'[r].unlinkFailed = hist[r].unlinkFailed
    /\ exc'[r] = exc[r]
    /\ pc'[r] \notin {"except", pc[r]}
    /\ pc'[r] = "raised" => exc[r] # NoExc

\* C19: reclaiming a path never raises and never stops its caller.  An
\* absent or null path leaves the directory as it is, a present path whose
\* unlink succeeds is the only file removed, a failed unlink leaves the file
\* and the caller goes on; reclaiming a path twice is reclaiming it once.
C19_ReclaimIsTotalAndIdempotent ==
    /\ [][\A r \in Reqs :
            /\ (pc[r] = "finally" /\ pc'[r] # pc[r])
                   => ReclaimStep(r, temp_file_path[r])
            /\ (pc[r] = "finally_processed" /\ pc'[r] # pc[r])
                   => ReclaimStep(r, processed_file_path[r])
            /\ (pc[r] = "flac_cleanup" /\ pc'[r] # pc[r])
                   => ReclaimStep(r, flac_path[r])]_vars
    /\ [](\A p \in Paths \cup {NoPath} :
            /\ CleanupFile(dir, NoPath, TRUE) = dir
            /\ p \notin dir => CleanupFile(dir, p, TRUE) = dir
            /\ p \in dir => CleanupFile(dir, p, TRUE) = dir \ {p}
            /\ CleanupFile(dir, p, FALSE) = dir
            /\ \A ok \in BOOLEAN :
                 CleanupFile(CleanupFile(dir, p, TRUE), p, ok)
                     = CleanupFile(dir, p, TRUE))

\* C19 witness: a call returned although the unlink of its upload failed,
\* and the file is still there
C19_Witness ==
    \E r \in Reqs :
        /\ pc[r] = "returned"
        /\ hist[r].unlinkFailed
        /\ temp_file_path[r] \in dir

\* C20: when the backend reports the missing codec utility during the
\* transcription of a DetectLanguage call, the FLAC fallback is entered
\* before the call answers the default language.
C20_DetectUsesFallback ==
    \A r \in Reqs :
        (Detected(r)
         /\ hist[r].primary.type = "OSError"
         /\ Contains(hist[r].primary.msg, FlacMarker))
            => hist[r].fallbacks >= 1

\* the position of a statement in the pipeline: persist, normalize,
\* transcribe, fallback, classify, return or except, cleanup, exit
StageRank(p) ==
    CASE p = "idle" -> 0
      [] p = "persist" -> 1
      [] p = "convert" -> 2
      [] p = "export" -> 3
      [] p = "transcribe" -> 4
      [] p = "flac_decode" -> 5
      [] p = "flac_export" -> 6
      [] p = "flac_retry" -> 7
      [] p = "flac_cleanup" -> 8
      [] p = "ld_detect" -> 9
      [] p = "return" -> 10
      [] p = "except" -> 11
      [] p = "finally" -> 12
      [] p = "finally_processed" -> 13
      [] OTHER -> 14

\* C21: every started Transcribe or DetectLanguage call returns or raises.
\* Each step of a call moves it to a later stage (persist, normalize,
\* transcribe, at most one fallback, in that order, no stage twice), and a
\* call exits only from its cleanup step.
C21_CallTerminatesInStageOrder ==
    /\ \A r \in Reqs : (pc[r] = "persist") ~> Exited(r)
    /\ [][\A r \in Reqs :
            /\ (pc'[r] # pc[r] /\ pc'[r] # "idle")
                  => StageRank(pc'[r]) > StageRank(pc[r])
            /\ (pc'[r] # pc[r] /\ pc'[r] \in {"returned", "raised"})
                  => pc[r] \in {"finally", "finally_processed"}
            /\ hist'[r].fallbacks <= 1
            /\ hist'[r].primaries <= 1]_vars

\* C21 witness: a call went through persist, conversion, the primary
\* attempt and the fallback, and has returned
C21_Witness ==
    \E r \in Reqs :
        /\ pc[r] = "returned"
        /\ hist[r].persist = "ok"
        /\ hist[r].conv = "ok"
        /\ hist[r].primaries = 1
        /\ hist[r].fallbacks = 1
        /\ hist[r].retry # "none"

\* the handler of slot r has its response
Answered(r) == api[r].pc = "done"

\* the handler of slot r has made its workflow call
Posted(r) == api[r].posts > 0

\* C22: in upload_audio a sentinel text that process_audio_file returned
\* goes the way of a transcript: it is the transcript posted to the
\* workflow, no error response is given before that call, and the success
\* response comes with an audit record whose transcript is the sentinel.
C22_SentinelTreatedAsTranscript ==
    \A r \in Reqs :
        (api[r].endpoint = "upload_audio" /\ api[r].pipeline = "returned"
         /\ IsSentinel(api[r].transcription)
         /\ api[r].pc \in {"store", "done"}) =>
            /\ api[r].posts = 1
            /\ api[r].posted.transcript = api[r].transcription
            /\ (Answered(r) /\ api[r].inserts = 1 /\ api[r].actionId # 0) =>
                  /\ api[r].status = 200
                  /\ db[api[r].actionId].audioTranscript = api[r].transcription
            /\ (Answered(r) /\ api[r].status # 200) => api[r].actionId = 0

\* C22 witness: the no-speech sentinel was posted and stored and the
\* response is the success response
C22_Witness ==
    \E r \in Reqs :
        /\ api[r].endpoint = "upload_audio" /\ Answered(r)
        /\ api[r].status = 200
        /\ api[r].transcription = SentinelNoMatch
        /\ api[r].posted.transcript = SentinelNoMatch
        /\ db[api[r].actionId].audioTranscript = SentinelNoMatch

\* the submission of slot r failed before the store step
FailedBeforeStore(r) ==
    \/ ~Posted(r)
    \/ /\ api[r].endpoint = "voice_message_webhook"
       /\ api[r].n8n_result.result = "null_transcript"

\* C23: a success response of either endpoint comes with exactly one audit
\* record of the submission, inserted after the workflow call, whose
\* processed flag is the workflow result's success flag, whatever the
\* workflow call did; an error response given before the store step comes
\* with no record.
C23_SuccessHasOneRecord ==
    \A r \in Reqs :
        Answered(r) =>
            /\ api[r].status = 200 =>
                  /\ api[r].inserts = 1
                  /\ api[r].posts = 1
                  /\ api[r].postsAtInsert = 1
                  /\ api[r].actionId \in 1..Len(db)
                  /\ db[api[r].actionId].processed = api[r].n8n_result.success
            /\ (api[r].status # 200 /\ FailedBeforeStore(r)) =>
                  api[r].inserts = 0

\* C23 witness: the workflow call timed out, the record is stored with
\* processed = false and the response is the success response
C23_Witness ==
    \E r \in Reqs :
        /\ api[r].endpoint = "upload_audio" /\ Answered(r)
        /\ api[r].status = 200
        /\ api[r].outcome.kind = "timeout"
        /\ ~db[api[r].actionId].processed

\* C23 witness for voice_message_webhook, with a workflow answer of 500
C23_WitnessWebhook ==
    \E r \in Reqs :
        /\ api[r].endpoint = "voice_message_webhook" /\ Answered(r)
        /\ api[r].status = 200
        /\ api[r].outcome.kind = "response" /\ api[r].outcome.status = 500
        /\ ~db[api[r].actionId].processed

\* C23 witness of the error before the store step
C23_WitnessNoRecord ==
    \E r \in Reqs :
        /\ Answered(r) /\ api[r].pipeline = "raised"
        /\ api[r].status = 500 /\ api[r].inserts = 0

\* the handler of slot r did nothing beyond its checks
NothingDone(r) ==
    api[r].calls = 0 /\ api[r].posts = 0 /\ api[r].inserts = 0

\* C24: upload_audio answers an upload without filename with 400 and an
\* upload larger than MAX_AUDIO_FILE_SIZE with 413, and in both cases
\* calls neither the pipeline nor the workflow and stores no record.
C24_RejectedUploadStatus ==
    \A r \in Reqs :
        (api[r].endpoint = "upload_audio" /\ Answered(r)) =>
            /\ api[r].filename = <<>> =>
                  api[r].status = 400 /\ NothingDone(r)
            /\ (api[r].filename # <<>>
                 /\ api[r].size > MAX_AUDIO_FILE_SIZE) =>
                  api[r].status = 413 /\ NothingDone(r)

\* the webhook answered with a status
Responded(o, status) == o.kind = "response" /\ o.status = status

\* C25 as stated: the workflow call returns a result, never raises;
\* process_voice_message has success = true exactly for status 200,
\* process_voice_audio exactly for status 200 and, with the fallback
\* result, for 404; every failure carries an error message.
C25_SuccessIffStatus ==
    \A r \in Reqs :
        Posted(r) =>
            LET o == api[r].outcome
                res == api[r].n8n_result IN
            /\ api[r].pc \in {"store", "done"}
            /\ ~res.success => res.error # "None"
            /\ api[r].endpoint = "upload_audio" =>
                  (res.success <=> Responded(o, 200))
            /\ api[r].endpoint = "voice_message_webhook" =>
                  /\ res.success <=> (Responded(o, 200) \/ Responded(o, 404))
                  /\ Responded(o, 404) => res.result = "fallback"

\* C25, amended: success = true needs status 200 and a body that is JSON.
C25_SuccessIffStatusAndJson ==
    \A r \in Reqs :
        Posted(r) =>
            LET o == api[r].outcome
                res == api[r].n8n_result
                parsed == Responded(o, 200) /\ o.body # "unparsable" IN
            /\ api[r].pc \in {"store", "done"}
            /\ ~res.success => res.error # "None"
            /\ res.success => res.error = "None"
            /\ api[r].endpoint = "upload_audio" =>
                  /\ res.success <=> parsed
                  /\ parsed => res.result = o.body
            /\ api[r].endpoint = "voice_message_webhook" =>
                  /\ res.success <=> (parsed \/ Responded(o, 404))
                  /\ parsed => res.result = o.body
                  /\ Responded(o, 404) => res.result = "fallback"

\* C25 witness: status 200 with a body that is no JSON gave success =
\* false with an error message
C25_Witness ==
    \E r \in Reqs :
        /\ Posted(r) /\ api[r].endpoint = "upload_audio"
        /\ Responded(api[r].outcome, 200)
        /\ api[r].outcome.body = "unparsable"
        /\ ~api[r].n8n_result.success
        /\ api[r].n8n_result.error = "error"

\* C25 witness of the 404 fallback of process_voice_audio
C25_WitnessFallback ==
    \E r \in Reqs :
        /\ Posted(r) /\ api[r].endpoint = "voice_message_webhook"
        /\ Responded(api[r].outcome, 404)
        /\ api[r].n8n_result.success
        /\ api[r].n8n_result.result = "fallback"

\* C25 witness of a 404 answer to process_voice_message
C25_WitnessMessage404 ==
    \E r \in Reqs :
        /\ Posted(r) /\ api[r].endpoint = "upload_audio"
        /\ Responded(api[r].outcome, 404)
        /\ ~api[r].n8n_result.success

C26_WitnessDeleted ==
    \E r \in Reqs :
        /\ kind[r] = "transcribe" /\ pc[r] = "returned"
        /\ hist[r].conv = "decode_fail"
        /\ result[r].name = temp_file_path[r]
        /\ result[r].name \notin dir

====
